---- MODULE Spec2Model ----
(***************************************************************************)
(* A model of stwcs' headerlet.py (lib/stwcs/wcsutil/headerlet.py):        *)
(*   isWCSIdentical  - comparison of two WCS solutions                     *)
(*   createHeaderlet - building a headerlet from a science observation     *)
(*   Headerlet.apply - applying a headerlet to a science observation       *)
(*   HeaderletHDU    - a headerlet archived in a tar file inside an HDU    *)
(*                                                                         *)
(* A FITS file is a record: its primary header (phdr), its science         *)
(* extensions (sci: the SCI extensions of an observation, the SIPWCS       *)
(* extensions of a headerlet), its WCSDVARR and D2IMARR array extensions,  *)
(* its WCSCORR table and its attached HDRLET extensions.  A header is      *)
(* modelled by the groups of keywords the code reads, deletes and copies;  *)
(* a keyword that is absent is Absent (strings) or 0 (numbers).            *)
(* Science extensions are taken to carry two-dimensional data (NAXIS = 2). *)
(***************************************************************************)
EXTENDS Integers, Sequences, FiniteSets, TLC

VARIABLES
    dest,          \* the science file: apply's dest/fobj, createHeaderlet's fname, isWCSIdentical's scifile
    hlet,          \* the headerlet: apply's self, createHeaderlet's result, isWCSIdentical's file2
    pc,            \* the position of the running operation
    args,          \* the arguments of the running operation
    numhlt,        \* apply's local numhlt
    orig_hlt_hdu,  \* apply's local orig_hlt_hdu: <<>> is None, <<hdu>> an HDU
    idx,           \* apply's loop variable over the SIPWCS extensions
    exc,           \* the exception the operation ended with, or NoExc
    log,           \* what the operation wrote to hdr_logger / module_logger
    ret,           \* isWCSIdentical's result; the file createHeaderlet wrote
    dest0,         \* history: the science file as it was when the operation began
    hdu,           \* the HeaderletHDU made by fromheaderlet
    decoded,       \* the Headerlet read from hdu
    tmpfiles       \* the temporary files of fromheaderlet that exist

vars == <<dest, hlet, pc, args, numhlt, orig_hlt_hdu, idx, exc, log, ret, dest0, hdu, decoded,
         tmpfiles>>

(***************************************************************************)
(* Bounds of the model.                                                    *)
(***************************************************************************)
MaxSci == 2      \* at most this many science extensions in a file
MaxApplies == 2  \* at most this many calls of apply on a file

(***************************************************************************)
(* Values.                                                                 *)
(***************************************************************************)
Absent == "<absent>"          \* a keyword that is not in the header; None for an argument
NoExc  == "none"
RefKw  == {"IDCTAB", "NPOLFILE", "D2IMFILE"}
Axes   == {1, 2}

\* str.strip() of a keyword value: the blank values are "" and " "
str_strip(s) == IF s = " " THEN "" ELSE s

\* Python truth of a string or None
Truthy(s) == s # Absent /\ s # ""

RECURSIVE SelectIdx(_, _, _)
\* the first index of s at or after i whose element has EXTVER v, 0 if none
SelectIdx(s, v, i) ==
    IF i > Len(s) THEN 0
    ELSE IF s[i].extver = v THEN i
    ELSE SelectIdx(s, v, i + 1)

\* s without its element at index i
RemoveAt(s, i) == SubSeq(s, 1, i - 1) \o SubSeq(s, i + 1, Len(s))

(***************************************************************************)
(* Files.                                                                  *)
(***************************************************************************)
NoRefs == [k \in RefKw |-> <<>>]

EmptyHdr ==
    [ROOTNAME |-> Absent, DESTIM |-> Absent, HDRNAME |-> Absent,
     STWCSVER |-> Absent, VAFACTOR |-> 0, refs |-> NoRefs]

\* A science (SCI or SIPWCS) extension without WCS keywords.
\* the cards createHeaderlet copies when they are there, by keyword, and the
\* card it writes for a missing D2IMERR
OptKw == {"CPERROR1", "CPERROR2", "NPOLEXT", "D2IMEXT", "D2IMERR", "DPERROR"}

BareExt(v) ==
    [extver   |-> v,
     wcs      |-> 0,                      \* CRVAL, CRPIX, CD, CTYPE
     sip      |-> 0,                      \* A_ORDER, A_i_j, B_ORDER, B_i_j
     alt      |-> {},                     \* the keys of the alternate WCSs (WCSNAMEk ...)
     vafactor |-> 0,                      \* VAFACTOR
     cpdis    |-> [a \in Axes |-> FALSE], \* CPDISa = 'LOOKUP'
     dp       |-> [a \in Axes |-> 0],     \* DPa.EXTVER (with DPa.AXIS.a ...), 0: no DPa.* card
     axiscorr |-> 0,                      \* AXISCORR
     opt      |-> {}]                     \* which of the cards OptKw are there

\* A file with a primary header only.  self_hdrname and self_destim are the
\* attributes Headerlet.__init__ caches; they are Absent for a file that is no
\* Headerlet object.
NoFile ==
    [fname |-> Absent, extname |-> "SCI", phdr |-> EmptyHdr, sci |-> <<>>,
     wdvarr |-> <<>>, d2imarr |-> <<>>, wcscorr |-> <<>>, hdrlets |-> <<>>,
     self_hdrname |-> Absent, self_destim |-> Absent]

\* stsci.tools.fileutil.countExtn
countExtn(f, extname) ==
    CASE extname = "SCI"      -> IF f.extname = "SCI" THEN Len(f.sci) ELSE 0
      [] extname = "SIPWCS"   -> IF f.extname = "SIPWCS" THEN Len(f.sci) ELSE 0
      [] extname = "WCSDVARR" -> Len(f.wdvarr)
      [] extname = "D2IMARR"  -> Len(f.d2imarr)
      [] extname = "HDRLET"   -> Len(f.hdrlets)
      [] OTHER                -> 0

\* f[(extname, v)] of a science extension: its index in f.sci, 0 for KeyError
SciIdx(f, extname, v) ==
    IF f.extname = extname THEN SelectIdx(f.sci, v, 1) ELSE 0

(***************************************************************************)
(* HSTWCS(f, ext=(extname, v)): the WCS object built from the header of an *)
(* extension and, for the lookup tables, from the array extensions of the  *)
(* file.  A component that is None is 0.                                   *)
(***************************************************************************)
HSTWCS(f, extname, v) ==
    LET i == SciIdx(f, extname, v) IN
    IF i = 0 THEN [exc |-> "KeyError"]
    ELSE
    LET e == f.sci[i]
        \* a CPDISa card without its DPa.* cards, or pointing at no WCSDVARR extension
        dangling(a) == e.cpdis[a] /\ (e.dp[a] = 0 \/ SelectIdx(f.wdvarr, e.dp[a], 1) = 0)
        lut(a) == IF e.cpdis[a] THEN f.wdvarr[SelectIdx(f.wdvarr, e.dp[a], 1)].data ELSE 0
        d2i == SelectIdx(f.d2imarr, 1, 1)
        d2im(a) == IF e.axiscorr = 0 \/ d2i = 0 THEN 0
                   ELSE IF (e.axiscorr = 1) = (a = 1) THEN f.d2imarr[d2i].data ELSE 0
    IN  IF \E a \in Axes : dangling(a) THEN [exc |-> "KeyError"]
        ELSE [exc      |-> NoExc,
              wcs      |-> e.wcs,
              sip      |-> e.sip,
              cpdis1   |-> lut(1),
              cpdis2   |-> lut(2),
              det2im1  |-> d2im(1),
              det2im2  |-> d2im(2),
              vafactor |-> IF e.vafactor = 0 THEN 1 ELSE e.vafactor]

(***************************************************************************)
(* getRootname                                                             *)
(***************************************************************************)
getRootname(f) ==
    IF f.phdr.ROOTNAME # Absent THEN [exc |-> NoExc, val |-> f.phdr.ROOTNAME]
    ELSE IF f.phdr.DESTIM # Absent THEN [exc |-> NoExc, val |-> f.phdr.DESTIM]
    ELSE [exc |-> "KeyError", val |-> Absent]

(***************************************************************************)
(* isWCSIdentical                                                          *)
(***************************************************************************)
\* "x or y": the test of one optional component c1, c2 of the two WCSs, with
\* Python's evaluation order: "mismatch", "same", or "AttributeError" when the
\* .data (.a, .b) of a component that is None is read.
ComponentTest(c1, c2) ==
    IF c1 # 0 \/ c2 # 0
    THEN IF c1 # 0 /\ c2 = 0 THEN "mismatch"
         ELSE IF c2 # 0 /\ c1 = 0 THEN "mismatch"
         ELSE IF c1 = 0 \/ c2 = 0 THEN "AttributeError"     \* None.data
         ELSE IF c1 # c2 THEN "mismatch" ELSE "same"
    ELSE "same"

Components == {"sip", "cpdis1", "cpdis2", "det2im1", "det2im2"}

\* one pass of the loop body for the WCSs w1, w2
ExtTests(w1, w2) ==
    {ComponentTest(w1[c], w2[c]) : c \in Components}
    \cup {IF w1.wcs # w2.wcs THEN "mismatch" ELSE "same"}
    \cup {IF w1.vafactor # w2.vafactor THEN "mismatch" ELSE "same"}

isWCSIdentical(scifile, file2) ==
    LET numsci1 == IF countExtn(scifile, "SCI") >= countExtn(scifile, "SIPWCS")
                   THEN countExtn(scifile, "SCI") ELSE countExtn(scifile, "SIPWCS")
        numsci2 == IF countExtn(file2, "SCI") >= countExtn(file2, "SIPWCS")
                   THEN countExtn(file2, "SCI") ELSE countExtn(file2, "SIPWCS")
        counts  == ~(numsci1 = 0 \/ numsci2 = 0 \/ numsci1 # numsci2)
        r1 == getRootname(scifile)
        r2 == getRootname(file2)
        extname1 == IF SciIdx(scifile, "SCI", 1) # 0 THEN "SCI" ELSE "SIPWCS"
        extname2 == IF SciIdx(file2, "SCI", 1) # 0 THEN "SCI" ELSE "SIPWCS"
        w1(i) == HSTWCS(scifile, extname1, i)
        w2(i) == HSTWCS(file2, extname2, i)
        tests(i) == ExtTests(w1(i), w2(i))
    IN  IF r1.exc # NoExc \/ r2.exc # NoExc THEN [exc |-> "KeyError", val |-> FALSE]
        ELSE IF \E i \in 1..numsci1 : w1(i).exc # NoExc \/ w2(i).exc # NoExc
        THEN [exc |-> "KeyError", val |-> FALSE]
        ELSE IF \E i \in 1..numsci1 : "AttributeError" \in tests(i)
        THEN [exc |-> "AttributeError", val |-> FALSE]
        ELSE [exc |-> NoExc,
              val |-> counts /\ r1.val = r2.val
                      /\ \A i \in 1..numsci1 : "mismatch" \notin tests(i)]

(***************************************************************************)
(* updateRefFiles(source, dest): the cards of the reference files that     *)
(* source has are inserted into dest; returns dest's reference cards and   *)
(* the dictionary phdukw.                                                  *)
(***************************************************************************)
updateRefFiles(source, dst) ==
    [refs   |-> [k \in RefKw |->
                    IF source[k] # <<>> THEN dst[k] \o <<source[k][1]>> ELSE dst[k]],
     phdukw |-> [k \in RefKw |-> source[k] # <<>>]]

(***************************************************************************)
(* Headerlet.__init__ on a list of HDUs                                    *)
(***************************************************************************)
Headerlet(fobj) ==
    IF fobj.phdr.HDRNAME = Absent \/ fobj.phdr.DESTIM = Absent
    THEN [exc |-> "KeyError", hlet |-> NoFile]
    ELSE IF Len(fobj.sci) + Len(fobj.wdvarr) + Len(fobj.d2imarr) = 0
    THEN [exc |-> "IndexError", hlet |-> NoFile]       \* self[1]
    ELSE [exc  |-> NoExc,
          hlet |-> [fobj EXCEPT !.self_hdrname = fobj.phdr.HDRNAME,
                                !.self_destim = fobj.phdr.DESTIM]]

(***************************************************************************)
(* createHeaderlet                                                         *)
(***************************************************************************)
\* altwcs.wcskeys of the header of an extension
wcskeys(e) == e.alt

\* the keys of the alternate WCSs that go into the headerlet
\* the alternate keys with 'O' left in
HeaderletAltKeys_mut(e) == wcskeys(e)

HeaderletAltKeys(e) == wcskeys(e) \ {"O"}

\* the number of CPDIS* cards of an extension header
NumCpdis(e) == Cardinality({a \in Axes : e.cpdis[a]})

\* the D2IMERR card is looked for under another keyword, so that the
\* DPERROR card is written whenever D2IMFILE is there
OptCards_mut(fhdr, phdukw) ==
    (IF phdukw["NPOLFILE"]
     THEN { k \in {"CPERROR1", "CPERROR2"} :
              /\ k \in fhdr.opt
              /\ (IF k = "CPERROR1" THEN 1 ELSE 2) <= NumCpdis(fhdr) }
          \cup ({"NPOLEXT"} \cap fhdr.opt)
     ELSE {})
    \cup
    (IF phdukw["D2IMFILE"]
     THEN ({"D2IMEXT"} \cap fhdr.opt) \cup {"DPERROR"}
     ELSE {})

\* the optional cards of SIPWCS extension e: CPERROR<c> for c = 1..len(cpdis)
\* and NPOLEXT when the source has NPOLFILE; D2IMEXT and D2IMERR, or DPERROR
\* for a missing D2IMERR, when it has D2IMFILE
OptCards(fhdr, phdukw) ==
    (IF phdukw["NPOLFILE"]
     THEN { k \in {"CPERROR1", "CPERROR2"} :
              /\ k \in fhdr.opt
              /\ (IF k = "CPERROR1" THEN 1 ELSE 2) <= NumCpdis(fhdr) }
          \cup ({"NPOLEXT"} \cap fhdr.opt)
     ELSE {})
    \cup
    (IF phdukw["D2IMFILE"]
     THEN ({"D2IMEXT"} \cap fhdr.opt)
          \cup (IF "D2IMERR" \in fhdr.opt THEN {"D2IMERR"} ELSE {"DPERROR"})
     ELSE {})

\* The header of SIPWCS extension e: the body of the loop over the SCI
\* extensions.  [exc, ext].
SipwcsHeader(fobj, e, altkeys, phdukw) ==
    LET i    == SciIdx(fobj, "SCI", e)
        hwcs == HSTWCS(fobj, "SCI", e)
    IN  IF i = 0 \/ hwcs.exc # NoExc THEN [exc |-> "KeyError", ext |-> BareExt(e)]
        ELSE
        LET fhdr == fobj.sci[i] IN
        IF ~(altkeys \subseteq fhdr.alt)             \* HSTWCS(..., wcskey=ak)
        THEN [exc |-> "KeyError", ext |-> BareExt(e)]
        ELSE IF phdukw["D2IMFILE"] /\ fhdr.axiscorr = 0
        THEN [exc |-> "KeyError", ext |-> BareExt(e)]
        ELSE [exc |-> NoExc,
              ext |-> [extver   |-> e,
                       wcs      |-> hwcs.wcs,
                       sip      |-> hwcs.sip,
                       alt      |-> altkeys,
                       vafactor |-> hwcs.vafactor,
                       \* cpdis[c - 1] with the cards DP<c>.*, c = 1..len(cpdis)
                       cpdis    |-> [a \in Axes |-> phdukw["NPOLFILE"] /\ fhdr.cpdis[a]],
                       dp       |-> [c \in Axes |->
                                       IF phdukw["NPOLFILE"] /\ c <= NumCpdis(fhdr)
                                       THEN fhdr.dp[c] ELSE 0],
                       axiscorr |-> IF phdukw["D2IMFILE"] THEN fhdr.axiscorr ELSE 0,
                       opt      |-> OptCards(fhdr, phdukw)]]

\* the copies of the array extensions (name, 1) .. (name, n) of a file
CopyArrays(arrs) ==
    [w \in 1..Len(arrs) |-> arrs[SelectIdx(arrs, w, 1)]]

createHeaderlet(fobj, hdrname, destim_arg) ==
    LET destim == IF destim_arg = Absent THEN fobj.phdr.ROOTNAME ELSE destim_arg
        upwcsver == IF fobj.phdr.STWCSVER # Absent THEN fobj.phdr.STWCSVER ELSE " "
        Fail(x) == [exc |-> x, hlet |-> NoFile]
    IN  IF destim = Absent THEN Fail("KeyError")
        ELSE IF hdrname = Absent THEN Fail("ValueError")
        ELSE IF SciIdx(fobj, "SCI", 1) = 0 THEN Fail("KeyError")
        ELSE
        LET altkeys == HeaderletAltKeys(fobj.sci[SciIdx(fobj, "SCI", 1)])
            numsci  == countExtn(fobj, "SCI")
            upd     == updateRefFiles(fobj.phdr.refs, NoRefs)
            sci1    == fobj.sci[SciIdx(fobj, "SCI", 1)]
            phdr    == [ROOTNAME |-> Absent, DESTIM |-> destim, HDRNAME |-> hdrname,
                        STWCSVER |-> upwcsver,
                        VAFACTOR |-> IF sci1.vafactor = 0 THEN 1 ELSE sci1.vafactor,
                        refs |-> upd.refs]
            h(e)    == SipwcsHeader(fobj, e, altkeys, upd.phdukw)
            arrays_ok(arrs) == \A w \in 1..Len(arrs) : SelectIdx(arrs, w, 1) # 0
        IN  IF \E e \in 1..numsci : h(e).exc # NoExc THEN Fail("KeyError")
            ELSE IF ~arrays_ok(fobj.wdvarr) \/ ~arrays_ok(fobj.d2imarr) THEN Fail("KeyError")
            ELSE Headerlet([fname |-> Absent, extname |-> "SIPWCS", phdr |-> phdr,
                            sci |-> [e \in 1..numsci |-> h(e).ext],
                            wdvarr |-> CopyArrays(fobj.wdvarr),
                            d2imarr |-> CopyArrays(fobj.d2imarr),
                            wcscorr |-> <<>>, hdrlets |-> <<>>,
                            self_hdrname |-> Absent, self_destim |-> Absent])

(***************************************************************************)
(* HeaderletHDU                                                            *)
(***************************************************************************)
\* headerlet.writeto(f): the HDUs of the headerlet, without the attributes
\* of the Headerlet object
writeto(h) == [h EXCEPT !.fname = Absent, !.self_hdrname = Absent, !.self_destim = Absent]

\* the length of a tar file in 512-byte blocks: per member a header block
\* and the blocks of the file (one per HDU), and the end-of-archive blocks
TarLen(t) ==
    LET hdus(f) == 1 + Len(f.sci) + Len(f.wdvarr) + Len(f.d2imarr) IN
    IF t.members = <<>> THEN 2
    ELSE 2 + Len(t.members) + hdus(t.members[1].file) * Len(t.members)

NoHDU ==
    [extver |-> 0, HDRNAME |-> Absent, SIPNAME |-> Absent, NPOLFILE |-> Absent,
     D2IMFILE |-> Absent, COMPRESS |-> FALSE, NAXIS1 |-> 0,
     data |-> [gz |-> FALSE, members |-> <<>>]]

\* HeaderletHDU.fromheaderlet(headerlet, compress): [exc, hdu]
fromheaderlet(hlt, compress) ==
    LET phdr == hlt.phdr
        s1   == SciIdx(hlt, "SIPWCS", 1)
        Fail(x) == [exc |-> x, hdu |-> NoHDU]
    IN  IF phdr.HDRNAME = Absent THEN Fail("KeyError")
        ELSE
        LET t == [gz |-> compress,
                  members |-> <<[name |-> phdr.HDRNAME \o "_hdr.fits",
                                 file |-> writeto(hlt)]>>]
        IN  IF s1 = 0 THEN Fail("KeyError")                        \* headerlet['SIPWCS', 1]
            ELSE IF "A" \notin hlt.sci[s1].alt THEN Fail("KeyError")  \* WCSNAMEA
            ELSE IF phdr.refs["NPOLFILE"] = <<>> THEN Fail("KeyError")
            ELSE IF phdr.refs["D2IMFILE"] = <<>> THEN Fail("KeyError")
            ELSE [exc |-> NoExc,
                  hdu |-> [extver   |-> 1,
                           HDRNAME  |-> phdr.HDRNAME,
                           SIPNAME  |-> "A",
                           NPOLFILE |-> phdr.refs["NPOLFILE"][1],
                           D2IMFILE |-> phdr.refs["D2IMFILE"][1],
                           COMPRESS |-> compress,
                           NAXIS1   |-> TarLen(t),
                           data     |-> t]]

\* the version of the extension is left as fromheaderlet made it
update_ext_version_mut(h, v) == h

update_ext_version(h, v) == [h EXCEPT !.extver = v]

\* tarfile.open(mode=mode, fileobj=s): mode 'r' reads either kind of archive,
\* mode 'r:gz' a gzip-compressed one only
tarfile_open(gzmode, t) ==
    IF gzmode /\ ~t.gz THEN [exc |-> "ReadError"] ELSE [exc |-> NoExc]

RECURSIVE getmember(_, _, _)
\* the first member is taken whatever its name
getmember_mut(members, name, i) == 0

\* t.getmember(name): the index of the last member of that name among the
\* first i, 0 for KeyError
getmember(members, name, i) ==
    IF i = 0 THEN 0
    ELSE IF members[i].name = name THEN i
    ELSE getmember(members, name, i - 1)

\* HeaderletHDU.headerlet: [exc, hlet, warn]
headerlet(h) ==
    LET t == h.data
        Fail(x) == [exc |-> x, hlet |-> NoFile, warn |-> <<>>]
    IN  IF tarfile_open(h.COMPRESS, t).exc # NoExc THEN Fail("ReadError")
        ELSE IF Len(t.members) = 0 THEN Fail("ValueError")
        ELSE LET m == getmember(t.members, h.HDRNAME \o "_hdr.fits", Len(t.members))
                 hlt_info == IF m = 0 THEN t.members[1] ELSE t.members[m]
                 r == Headerlet(hlt_info.file)
             IN  [exc  |-> r.exc,
                  hlet |-> r.hlet,
                  warn |-> (IF Len(t.members) > 1 THEN <<"More than one file">> ELSE <<>>)
                           \o (IF m = 0 THEN <<"file missing">> ELSE <<>>)]

(***************************************************************************)
(* Headerlet.hverify and Headerlet.verify_dest                             *)
(***************************************************************************)
\* a self-check that does not look at HDRNAME
hverify_mut(self) ==
    /\ self.phdr.DESTIM # Absent /\ str_strip(self.phdr.DESTIM) # ""
    /\ self.phdr.STWCSVER # Absent

\* the assertions of hverify hold
hverify(self) ==
    /\ self.phdr.DESTIM # Absent /\ str_strip(self.phdr.DESTIM) # ""
    /\ self.phdr.HDRNAME # Absent /\ str_strip(self.phdr.HDRNAME) # ""
    /\ self.phdr.STWCSVER # Absent

\* verify_dest(dest): [exc, val].  byname: dest is the name of the file, not
\* an HDUList; the name of the file is <fname>.fits
verify_dest(self, d, byname) ==
    IF d.phdr.ROOTNAME # Absent
    THEN [exc |-> NoExc, val |-> d.phdr.ROOTNAME = self.self_destim]
    ELSE IF byname
    THEN [exc |-> NoExc, val |-> d.fname = self.self_destim]   \* dest.split('.fits')[0]
    ELSE [exc |-> "AttributeError", val |-> FALSE]             \* an HDUList has no split

(***************************************************************************)
(* Headerlet._delDestWCS and the _remove* methods                          *)
(***************************************************************************)
_removeD2IM(e) == [e EXCEPT !.axiscorr = 0, !.opt = @ \ {"D2IMEXT", "D2IMERR"}]

_removeSIP(e) == [e EXCEPT !.sip = 0]

\* the axes of the CPDIS* cards of a header, in the order of the header
CpdisCards(e) ==
    IF e.cpdis[1] /\ e.cpdis[2] THEN <<1, 2>>
    ELSE IF e.cpdis[1] THEN <<1>>
    ELSE IF e.cpdis[2] THEN <<2>>
    ELSE <<>>

RECURSIVE removeLUTLoop(_, _, _)
\* the loop of _removeLUT from c on: del DP<c>.*, del cpdis[c - 1]; the
\* KeyError of a del ends the method; after the loop del CPERR*, and
\* del NPOLFILE, which no extension header has, ends the method before
\* del NPOLEXT
removeLUTLoop(e, cpdis, c) ==
    IF c > Len(cpdis) THEN [e EXCEPT !.opt = @ \ {"CPERROR1", "CPERROR2"}]
    ELSE IF e.dp[c] = 0 THEN e
    ELSE removeLUTLoop([e EXCEPT !.dp[c] = 0, !.cpdis[cpdis[c]] = FALSE], cpdis, c + 1)

_removeLUT(e) == removeLUTLoop(e, CpdisCards(e), 1)

_removePrimaryWCS(e) == [e EXCEPT !.wcs = 0]

\* the body of _delDestWCS' loop for one IMAGE extension
StripExt(e) ==
    [_removePrimaryWCS(_removeLUT(_removeSIP(_removeD2IM(e)))) EXCEPT !.vafactor = 0]

\* the reference file cards of the destination are left in place
_removeRefFiles_mut(refs) == refs

\* del phdu.header.ascard[kw] for IDCTAB, NPOLFILE and D2IMFILE: the first
\* card of the keyword goes
_removeRefFiles(refs) ==
    [k \in RefKw |-> IF refs[k] = <<>> THEN <<>> ELSE Tail(refs[k])]

\* _removeAltWCS on the extensions exts, with the keys of the header of
\* ('SCI', 1); a WCS with key 'O' is never deleted
_removeAltWCS(exts, sci1) ==
    LET dkeys == wcskeys(sci1) IN
    [i \in DOMAIN exts |-> [exts[i] EXCEPT !.alt = @ \ (dkeys \ {"O"})]]

RECURSIVE DelArrays(_, _, _)
\* del dest[(name, i)] for i = i..n: [exc, arrs]
DelArrays(arrs, i, n) ==
    IF i > n THEN [exc |-> NoExc, arrs |-> arrs]
    ELSE IF SelectIdx(arrs, i, 1) = 0 THEN [exc |-> "KeyError", arrs |-> arrs]
    ELSE DelArrays(RemoveAt(arrs, SelectIdx(arrs, i, 1)), i + 1, n)

\* _delDestWCS(dest): [exc, dest]
_delDestWCS(d) ==
    LET stripped == [i \in DOMAIN d.sci |-> StripExt(d.sci[i])]
        d1 == [d EXCEPT !.sci = stripped, !.phdr.refs = _removeRefFiles(d.phdr.refs)]
        s1 == SciIdx(d1, "SCI", 1)
    IN  IF s1 = 0 THEN [exc |-> "KeyError", dest |-> d1]
        ELSE
        LET d2 == [d1 EXCEPT !.sci = _removeAltWCS(d1.sci, d1.sci[s1])]
            w  == DelArrays(d2.wdvarr, 1, Len(d2.wdvarr))
            d3 == [d2 EXCEPT !.wdvarr = w.arrs]
            m  == DelArrays(d3.d2imarr, 1, Len(d3.d2imarr))
        IN  IF w.exc # NoExc THEN [exc |-> w.exc, dest |-> d3]
            ELSE [exc |-> m.exc, dest |-> [d3 EXCEPT !.d2imarr = m.arrs]]

\* fhdr.insert(wind, k) for every card k of siphdr but the excluded ones
\* (EXTNAME, EXTVER ...): a card that fhdr still has stays the first of its
\* keyword, and is the one a reader finds
InsertCards(fhdr, siphdr) ==
    [extver   |-> fhdr.extver,
     wcs      |-> IF fhdr.wcs # 0 THEN fhdr.wcs ELSE siphdr.wcs,
     sip      |-> IF fhdr.sip # 0 THEN fhdr.sip ELSE siphdr.sip,
     alt      |-> fhdr.alt \cup siphdr.alt,
     vafactor |-> IF fhdr.vafactor # 0 THEN fhdr.vafactor ELSE siphdr.vafactor,
     cpdis    |-> [a \in Axes |-> fhdr.cpdis[a] \/ siphdr.cpdis[a]],
     dp       |-> [a \in Axes |-> IF fhdr.dp[a] # 0 THEN fhdr.dp[a] ELSE siphdr.dp[a]],
     axiscorr |-> IF fhdr.axiscorr # 0 THEN fhdr.axiscorr ELSE siphdr.axiscorr,
     opt      |-> fhdr.opt \cup siphdr.opt]

(***************************************************************************)
(* The files the specifications start from.                                *)
(***************************************************************************)
Arr(v, x) == [extver |-> v, data |-> x]

Refs(x) == [k \in RefKw |-> <<x>>]

\* science extensions of an observation
DestExts ==
    { [BareExt(1) EXCEPT !.wcs = 1],
      [BareExt(1) EXCEPT !.wcs = 2, !.sip = 1, !.alt = {"A", "O"}, !.vafactor = 2,
                         !.cpdis = [a \in Axes |-> TRUE], !.dp = [a \in Axes |-> a],
                         !.axiscorr = 1],
      [BareExt(1) EXCEPT !.wcs = 1, !.sip = 2, !.alt = {"A", "B"},
                         !.cpdis = [a \in Axes |-> a = 2], !.dp = [a \in Axes |-> IF a = 2 THEN 2 ELSE 0],
                         !.axiscorr = 2] }

\* SIPWCS extensions of a headerlet
HletExts ==
    { [BareExt(1) EXCEPT !.wcs = 2, !.vafactor = 1],
      [BareExt(1) EXCEPT !.wcs = 1, !.sip = 2, !.alt = {"A"}, !.vafactor = 2,
                         !.cpdis = [a \in Axes |-> TRUE], !.dp = [a \in Axes |-> a],
                         !.axiscorr = 2] }

\* the sequences of 1..MaxSci extensions of a set, numbered in order
ExtSeqs(exts, lo) ==
    UNION { { [i \in 1..n |-> [s[i] EXCEPT !.extver = i]] : s \in [1..n -> exts] }
            : n \in lo..MaxSci }

\* the array extensions the headers of the extensions refer to, with data
\* x and x + 1
ArraysFor(sci, x) ==
    [wdvarr  |-> IF \E i \in DOMAIN sci : \E a \in Axes : sci[i].cpdis[a]
                 THEN <<Arr(1, x), Arr(2, x + 1)>> ELSE <<>>,
     d2imarr |-> IF \E i \in DOMAIN sci : sci[i].axiscorr # 0
                 THEN <<Arr(1, x)>> ELSE <<>>]

MkFile(fname, extname, phdr, sci, x) ==
    [fname |-> fname, extname |-> extname, phdr |-> phdr, sci |-> sci,
     wdvarr |-> ArraysFor(sci, x).wdvarr, d2imarr |-> ArraysFor(sci, x).d2imarr,
     wcscorr |-> <<>>, hdrlets |-> <<>>,
     self_hdrname |-> Absent, self_destim |-> Absent]

\* science observations r1.fits
DestFiles ==
    { MkFile("r1", "SCI", [EmptyHdr EXCEPT !.ROOTNAME = root, !.refs = refs], sci, 1)
        : root \in {Absent, "r1"}, refs \in {NoRefs, Refs(1)},
          sci \in ExtSeqs(DestExts, 1) }

\* primary headers of headerlet files: for r1 and for r2, and with one of
\* the required keywords blank or missing
HletHdrs ==
    { [EmptyHdr EXCEPT !.DESTIM = "r1", !.HDRNAME = "h1", !.STWCSVER = "0.8"],
      [EmptyHdr EXCEPT !.DESTIM = "r2", !.HDRNAME = "h1", !.STWCSVER = "0.8"],
      [EmptyHdr EXCEPT !.DESTIM = " ",  !.HDRNAME = "h1", !.STWCSVER = "0.8"],
      [EmptyHdr EXCEPT !.DESTIM = "r1", !.HDRNAME = "",   !.STWCSVER = "0.8"],
      [EmptyHdr EXCEPT !.DESTIM = "r1", !.HDRNAME = "h1"] }

\* Headerlet objects opened from headerlet files
HletObjects ==
    { Headerlet(MkFile(Absent, "SIPWCS", [h EXCEPT !.refs = refs, !.VAFACTOR = 1], sci, 3)).hlet
        : h \in HletHdrs, refs \in {NoRefs, Refs(2)}, sci \in ExtSeqs(HletExts, 1) }

ApplyArgs ==
    [createheaderlet : BOOLEAN, hdrname : {Absent, "h2"}, attach : BOOLEAN,
     createsummary : BOOLEAN, byname : BOOLEAN]

NoArgs ==
    [createheaderlet |-> FALSE, hdrname |-> Absent, attach |-> FALSE,
     createsummary |-> FALSE, byname |-> TRUE]

Msg(text, names) == [msg |-> text, names |-> names]

(***************************************************************************)
(* Headerlet.apply, step by step.                                          *)
(***************************************************************************)
Init ==
    /\ dest \in DestFiles
    /\ hlet \in HletObjects
    /\ pc = "ready"
    /\ args = NoArgs
    /\ numhlt = 0
    /\ orig_hlt_hdu = <<>>
    /\ idx = 0
    /\ exc = NoExc
    /\ log = <<>>
    /\ ret = FALSE
    /\ dest0 = dest
    /\ hdu = NoHDU
    /\ decoded = NoFile
    /\ tmpfiles = {}

\* the operation ends with exception x
Raise(x) == pc' = "raised" /\ exc' = x

\* hlet.apply(dest, createheaderlet, hdrname, attach, createsummary) is called
ApplyCall ==
    /\ pc = "ready"
    /\ \E a \in ApplyArgs :
          /\ a.createheaderlet \/ a.hdrname = Absent
          /\ dest.phdr.ROOTNAME = Absent \/ a.byname
          /\ args' = a
    /\ pc' = "hverify"
    /\ dest0' = dest
    /\ UNCHANGED <<dest, hlet, numhlt, orig_hlt_hdu, idx, exc, log, ret, hdu, decoded, tmpfiles>>

\* self.hverify()
ApplyHverify ==
    /\ pc = "hverify"
    /\ IF hverify(hlet) THEN pc' = "verify_dest" /\ exc' = exc
       ELSE Raise("AssertionError")
    /\ UNCHANGED <<dest, hlet, args, numhlt, orig_hlt_hdu, idx, log, ret, dest0, hdu, decoded, tmpfiles>>

\* if self.verify_dest(dest): ... else: the diagnostic, which reads fobj,
\* a local variable that is bound in the other branch only
ApplyVerifyDest ==
    /\ pc = "verify_dest"
    /\ LET v == verify_dest(hlet, dest, args.byname) IN
       IF v.exc # NoExc
       THEN Raise(v.exc) /\ log' = Append(log, Msg("Keyword 'ROOTNAME' not found in destination file", <<>>))
       ELSE IF v.val
       THEN /\ pc' = "init_wcscorr" /\ exc' = exc
            /\ log' = Append(log, Msg("verify_destim() returned True", <<>>))
       ELSE /\ Raise("UnboundLocalError")
            /\ log' = Append(log, Msg("verify_destim() returned False", <<>>))
    /\ UNCHANGED <<dest, hlet, args, numhlt, orig_hlt_hdu, idx, ret, dest0, hdu, decoded, tmpfiles>>

\* if createsummary: wcscorr.init_wcscorr(fobj) unless fobj has a WCSCORR table
ApplyInitWcscorr ==
    /\ pc = "init_wcscorr"
    /\ dest' = IF args.createsummary /\ dest.wcscorr = <<>>
               THEN [dest EXCEPT !.wcscorr = <<"init_wcscorr">>] ELSE dest
    /\ pc' = "rollback"
    /\ UNCHANGED <<hlet, args, numhlt, orig_hlt_hdu, idx, exc, log, ret, dest0, hdu, decoded, tmpfiles>>

\* the headerlet of the original WCS: createHeaderlet(fobj, hdrname), [exc, hdu]
MakeOrigHlt(fobj, hdrname) ==
    LET name == IF Truthy(hdrname) THEN hdrname
                ELSE IF fobj.phdr.ROOTNAME = Absent THEN Absent
                ELSE fobj.phdr.ROOTNAME \o "_orig"
        orig_hlt == createHeaderlet(fobj, name, Absent)
    IN  IF name = Absent THEN [exc |-> "KeyError", hdu |-> NoHDU]
        ELSE IF orig_hlt.exc # NoExc THEN [exc |-> orig_hlt.exc, hdu |-> NoHDU]
        ELSE fromheaderlet(orig_hlt.hlet, FALSE)

\* the rollback headerlet is appended to the file as soon as it is made
ApplyRollback_mut ==
    /\ pc = "rollback"
    /\ LET n == countExtn(dest, "HDRLET")
           o == MakeOrigHlt(dest, args.hdrname)
       IN  IF ~args.createheaderlet
           THEN /\ numhlt' = n /\ orig_hlt_hdu' = <<>>
                /\ pc' = "delDestWCS" /\ exc' = exc
           ELSE IF o.exc # NoExc
           THEN /\ numhlt' = n /\ orig_hlt_hdu' = <<>> /\ Raise(o.exc)
           ELSE /\ numhlt' = n + 1
                /\ orig_hlt_hdu' = <<update_ext_version(o.hdu, n + 1)>>
                /\ pc' = "delDestWCS" /\ exc' = exc
    /\ dest' = IF args.createheaderlet /\ MakeOrigHlt(dest, args.hdrname).exc = NoExc
               THEN [dest EXCEPT !.hdrlets =
                        Append(@, update_ext_version(MakeOrigHlt(dest, args.hdrname).hdu,
                                                     countExtn(dest, "HDRLET") + 1))]
               ELSE dest
    /\ UNCHANGED <<hlet, args, idx, log, ret, dest0, hdu, decoded, tmpfiles>>

\* numhlt = countExtn(fobj, 'HDRLET'); if createheaderlet: ...
ApplyRollback ==
    /\ pc = "rollback"
    /\ LET n == countExtn(dest, "HDRLET")
           o == MakeOrigHlt(dest, args.hdrname)
       IN  IF ~args.createheaderlet
           THEN /\ numhlt' = n /\ orig_hlt_hdu' = <<>>
                /\ pc' = "delDestWCS" /\ exc' = exc
           ELSE IF o.exc # NoExc
           THEN /\ numhlt' = n /\ orig_hlt_hdu' = <<>> /\ Raise(o.exc)
           ELSE /\ numhlt' = n + 1
                /\ orig_hlt_hdu' = <<update_ext_version(o.hdu, n + 1)>>
                /\ pc' = "delDestWCS" /\ exc' = exc
    /\ UNCHANGED <<dest, hlet, args, idx, log, ret, dest0, hdu, decoded, tmpfiles>>

\* self._delDestWCS(fobj)
ApplyDelDestWCS ==
    /\ pc = "delDestWCS"
    /\ LET r == _delDestWCS(dest) IN
         /\ dest' = r.dest
         /\ IF r.exc # NoExc THEN Raise(r.exc) ELSE pc' = "updateRefFiles" /\ exc' = exc
    /\ UNCHANGED <<hlet, args, numhlt, orig_hlt_hdu, idx, log, ret, dest0, hdu, decoded, tmpfiles>>

\* refs = updateRefFiles(self[0].header.ascard, fobj[0].header.ascard)
ApplyUpdateRefFiles ==
    /\ pc = "updateRefFiles"
    /\ dest' = [dest EXCEPT !.phdr.refs = updateRefFiles(hlet.phdr.refs, dest.phdr.refs).refs]
    /\ pc' = "copy"
    /\ idx' = 1
    /\ UNCHANGED <<hlet, args, numhlt, orig_hlt_hdu, exc, log, ret, dest0, hdu, decoded, tmpfiles>>

\* one pass of: for idx in range(1, numsip + 1)
ApplyCopy ==
    /\ pc = "copy"
    /\ LET numsip == countExtn(hlet, "SIPWCS")
           i == SciIdx(dest, "SCI", idx)
           j == SciIdx(hlet, "SIPWCS", idx)
       IN  IF idx > numsip
           THEN pc' = "append_arrays" /\ UNCHANGED <<dest, idx, exc>>
           ELSE IF i = 0 \/ j = 0
           THEN Raise("KeyError") /\ UNCHANGED <<dest, idx>>
           ELSE /\ dest' = [dest EXCEPT !.sci[i] = InsertCards(dest.sci[i], hlet.sci[j])]
                /\ idx' = idx + 1
                /\ UNCHANGED <<pc, exc>>
    /\ UNCHANGED <<hlet, args, numhlt, orig_hlt_hdu, log, ret, dest0, hdu, decoded, tmpfiles>>

\* fobj.append(self[('WCSDVARR', idx)].copy()) ..., fobj.append(self[('D2IMARR', idx)].copy())
ApplyAppendArrays ==
    /\ pc = "append_arrays"
    /\ LET ok(arrs) == \A w \in 1..Len(arrs) : SelectIdx(arrs, w, 1) # 0 IN
       IF ~ok(hlet.wdvarr)
       THEN Raise("KeyError") /\ UNCHANGED dest
       ELSE IF ~ok(hlet.d2imarr)
       THEN /\ Raise("KeyError")
            /\ dest' = [dest EXCEPT !.wdvarr = @ \o CopyArrays(hlet.wdvarr)]
       ELSE /\ dest' = [dest EXCEPT !.wdvarr = @ \o CopyArrays(hlet.wdvarr),
                                    !.d2imarr = @ \o CopyArrays(hlet.d2imarr)]
            /\ pc' = "update_wcscorr" /\ exc' = exc
    /\ UNCHANGED <<hlet, args, numhlt, orig_hlt_hdu, idx, log, ret, dest0, hdu, decoded, tmpfiles>>

\* if createsummary: wcscorr.update_wcscorr(fobj, self, 'SIPWCS')
ApplyUpdateWcscorr ==
    /\ pc = "update_wcscorr"
    /\ dest' = IF args.createsummary
               THEN [dest EXCEPT !.wcscorr = Append(@, hlet.self_hdrname)] ELSE dest
    /\ pc' = "append_orig"
    /\ UNCHANGED <<hlet, args, numhlt, orig_hlt_hdu, idx, exc, log, ret, dest0, hdu, decoded, tmpfiles>>

\* if createheaderlet and orig_hlt_hdu: fobj.append(orig_hlt_hdu)
ApplyAppendOrig ==
    /\ pc = "append_orig"
    /\ dest' = IF args.createheaderlet /\ orig_hlt_hdu # <<>>
               THEN [dest EXCEPT !.hdrlets = Append(@, orig_hlt_hdu[1])] ELSE dest
    /\ pc' = "attach"
    /\ UNCHANGED <<hlet, args, numhlt, orig_hlt_hdu, idx, exc, log, ret, dest0, hdu, decoded, tmpfiles>>

\* if attach: new_hlt = HeaderletHDU.fromheaderlet(self) ...
ApplyAttach ==
    /\ pc = "attach"
    /\ LET new_hlt == fromheaderlet(hlet, FALSE) IN
       IF ~args.attach
       THEN pc' = "done" /\ UNCHANGED <<dest, exc>>
       ELSE IF new_hlt.exc # NoExc
       THEN Raise(new_hlt.exc) /\ UNCHANGED dest
       ELSE /\ dest' = [dest EXCEPT !.hdrlets =
                                 Append(@, update_ext_version(new_hlt.hdu, numhlt + 1))]
            /\ pc' = "done" /\ exc' = exc
    /\ UNCHANGED <<hlet, args, numhlt, orig_hlt_hdu, idx, log, ret, dest0, hdu, decoded, tmpfiles>>

Next ==
    \/ ApplyCall
    \/ ApplyHverify
    \/ ApplyVerifyDest
    \/ ApplyInitWcscorr
    \/ ApplyRollback
    \/ ApplyDelDestWCS
    \/ ApplyUpdateRefFiles
    \/ ApplyCopy
    \/ ApplyAppendArrays
    \/ ApplyUpdateWcscorr
    \/ ApplyAppendOrig
    \/ ApplyAttach

Spec == Init /\ [][Next]_vars

(***************************************************************************)
(* Headerlets applied one after the other to the same science file         *)
(* (specification SpecSeq): the actions of apply, and the next call.       *)
(***************************************************************************)
\* the extensions of file f are alike, and there is one or there are MaxSci
Uniform(f) ==
    /\ Len(f.sci) \in {1, MaxSci}
    /\ \A i \in DOMAIN f.sci : f.sci[i] = [f.sci[1] EXCEPT !.extver = i]

\* the headerlets that can be applied to r1.fits
SeqHlets == { h \in HletObjects : hverify(h) /\ h.self_destim = "r1" /\ Uniform(h) }

\* the science files r1.fits with ROOTNAME
SeqDests == { d \in DestFiles : d.phdr.ROOTNAME = "r1" /\ Uniform(d) }

InitSeq ==
    /\ dest \in SeqDests
    /\ hlet \in SeqHlets
    /\ pc = "ready"
    /\ args = NoArgs
    /\ numhlt = 0
    /\ orig_hlt_hdu = <<>>
    /\ idx = 0
    /\ exc = NoExc
    /\ log = <<>>
    /\ ret = FALSE
    /\ dest0 = dest
    /\ hdu = NoHDU
    /\ decoded = NoFile
    /\ tmpfiles = {}

\* apply has returned; another headerlet is taken to be applied to the file.
\* The log has one line of verify_dest for each call so far.
ApplyAgain ==
    /\ pc = "done"
    /\ Len(log) < MaxApplies
    /\ hlet' \in SeqHlets
    /\ pc' = "ready"
    /\ args' = NoArgs
    /\ numhlt' = 0
    /\ orig_hlt_hdu' = <<>>
    /\ idx' = 0
    /\ dest0' = dest
    /\ UNCHANGED <<dest, exc, log, ret, hdu, decoded, tmpfiles>>

NextSeq ==
    \/ ApplyCall
    \/ ApplyHverify
    \/ ApplyVerifyDest
    \/ ApplyInitWcscorr
    \/ ApplyRollback
    \/ ApplyDelDestWCS
    \/ ApplyUpdateRefFiles
    \/ ApplyCopy
    \/ ApplyAppendArrays
    \/ ApplyUpdateWcscorr
    \/ ApplyAppendOrig
    \/ ApplyAttach
    \/ ApplyAgain

SpecSeq == InitSeq /\ [][NextSeq]_vars

(***************************************************************************)
(* HeaderletHDU.fromheaderlet followed by HeaderletHDU.headerlet           *)
(* (specification SpecArchive).                                            *)
(***************************************************************************)
\* the reference file cards of a primary header, each present or not
RefSets(x) == [RefKw -> {<<>>, <<x>>}]

\* headerlets with DESTIM, HDRNAME and STWCSVER, 1..MaxSci SIPWCS extensions
ArchHlets ==
    { Headerlet(MkFile(Absent, "SIPWCS",
                       [EmptyHdr EXCEPT !.DESTIM = d, !.HDRNAME = "h1", !.STWCSVER = "0.8",
                                        !.VAFACTOR = 1, !.refs = refs],
                       sci, 3)).hlet
        : d \in {"r1", "r2"}, refs \in RefSets(2), sci \in ExtSeqs(HletExts, 1) }

InitArchive ==
    /\ hlet \in ArchHlets
    /\ dest = NoFile
    /\ dest0 = NoFile
    /\ pc = "arch_ready"
    /\ args = NoArgs
    /\ numhlt = 0
    /\ orig_hlt_hdu = <<>>
    /\ idx = 0
    /\ exc = NoExc
    /\ log = <<>>
    /\ ret = FALSE
    /\ hdu = NoHDU
    /\ decoded = NoFile
    /\ tmpfiles = {}

\* hdu = HeaderletHDU.fromheaderlet(hlet, compress)
Encode ==
    /\ pc = "arch_ready"
    /\ \E compress \in BOOLEAN :
          LET r == fromheaderlet(hlet, compress) IN
          IF r.exc # NoExc
          THEN Raise(r.exc) /\ UNCHANGED hdu
          ELSE pc' = "encoded" /\ hdu' = r.hdu /\ UNCHANGED exc
    /\ UNCHANGED <<dest, hlet, args, numhlt, orig_hlt_hdu, idx, log, ret, dest0, decoded, tmpfiles>>

\* decoded = hdu.headerlet
Decode ==
    /\ pc = "encoded"
    /\ LET r == headerlet(hdu) IN
          IF r.exc # NoExc
          THEN Raise(r.exc) /\ UNCHANGED decoded
          ELSE pc' = "decoded" /\ decoded' = r.hlet /\ UNCHANGED exc
    /\ UNCHANGED <<dest, hlet, args, numhlt, orig_hlt_hdu, idx, log, ret, dest0, hdu, tmpfiles>>

NextArchive ==
    \/ Encode
    \/ Decode

SpecArchive == InitArchive /\ [][NextArchive]_vars

(***************************************************************************)
(* HeaderletHDU.fromheaderlet step by step, with the temporary file it     *)
(* writes the headerlet to and the failures of the file system             *)
(* (specification SpecEncode).                                             *)
(***************************************************************************)
\* the name tempfile.mkstemp() returns
TmpName == "tmp1"

\* the failures of the steps inside the try block
TryFailures == {"OSError", "IOError", "TarError"}

\* the temporary file is removed only when the try block ends normally
ExitTry_mut(files, name, failed) == IF failed THEN files ELSE files \ {name}

\* finally: os.remove(name): the files left when the try block is left
ExitTry(files, name, failed) == files \ {name}

InitEncode ==
    /\ hlet \in ArchHlets
    /\ dest = NoFile
    /\ dest0 = NoFile
    /\ pc = "enc_ready"
    /\ args = NoArgs
    /\ numhlt = 0
    /\ orig_hlt_hdu = <<>>
    /\ idx = 0
    /\ exc = NoExc
    /\ log = <<>>
    /\ ret = FALSE
    /\ hdu = NoHDU
    /\ decoded = NoFile
    /\ tmpfiles = {}

\* fromheaderlet(hlet, compress) is called: hlt_filename is made from HDRNAME;
\* the compress argument is kept in hdu.COMPRESS
EncodeCall ==
    /\ pc = "enc_ready"
    /\ \E compress \in BOOLEAN :
          IF hlet.phdr.HDRNAME = Absent
          THEN Raise("KeyError") /\ UNCHANGED hdu
          ELSE /\ pc' = "enc_mkstemp"
               /\ hdu' = [NoHDU EXCEPT !.COMPRESS = compress]
               /\ UNCHANGED exc
    /\ UNCHANGED <<dest, hlet, args, numhlt, orig_hlt_hdu, idx, log, ret, dest0, decoded, tmpfiles>>

\* fd, name = tempfile.mkstemp(): the file exists from here on, or no file
\* is made and OSError is raised
EncodeMkstemp ==
    /\ pc = "enc_mkstemp"
    /\ \/ pc' = "enc_write" /\ tmpfiles' = tmpfiles \cup {TmpName} /\ UNCHANGED exc
       \/ Raise("OSError") /\ UNCHANGED tmpfiles
    /\ UNCHANGED <<dest, hlet, args, numhlt, orig_hlt_hdu, idx, log, ret, dest0, hdu, decoded>>

\* f = os.fdopen(fd, 'rb+'); headerlet.writeto(f): on a failure the finally
\* clause runs and the exception leaves fromheaderlet
EncodeWrite ==
    /\ pc = "enc_write"
    /\ \/ pc' = "enc_tar" /\ UNCHANGED <<exc, tmpfiles>>
       \/ \E x \in {"OSError", "IOError"} :
             /\ Raise(x)
             /\ tmpfiles' = ExitTry(tmpfiles, TmpName, TRUE)
    /\ UNCHANGED <<dest, hlet, args, numhlt, orig_hlt_hdu, idx, log, ret, dest0, hdu, decoded>>

\* t = tarfile.open(mode=mode, fileobj=s); t.add(name, arcname=hlt_filename);
\* t.close(), and the finally clause on either way out
EncodeTar ==
    /\ pc = "enc_tar"
    /\ \/ /\ pc' = "enc_cards"
          /\ tmpfiles' = ExitTry(tmpfiles, TmpName, FALSE)
          /\ UNCHANGED exc
       \/ \E x \in TryFailures :
             /\ Raise(x)
             /\ tmpfiles' = ExitTry(tmpfiles, TmpName, TRUE)
    /\ UNCHANGED <<dest, hlet, args, numhlt, orig_hlt_hdu, idx, log, ret, dest0, hdu, decoded>>

\* the cards of the new HDU and the HDU itself
EncodeCards ==
    /\ pc = "enc_cards"
    /\ LET r == fromheaderlet(hlet, hdu.COMPRESS) IN
          IF r.exc # NoExc
          THEN Raise(r.exc) /\ UNCHANGED hdu
          ELSE pc' = "encoded" /\ hdu' = r.hdu /\ UNCHANGED exc
    /\ UNCHANGED <<dest, hlet, args, numhlt, orig_hlt_hdu, idx, log, ret, dest0, decoded, tmpfiles>>

NextEncode ==
    \/ EncodeCall
    \/ EncodeMkstemp
    \/ EncodeWrite
    \/ EncodeTar
    \/ EncodeCards

SpecEncode == InitEncode /\ [][NextEncode]_vars

(***************************************************************************)
(* HeaderletHDU.headerlet on the HEADERLET extensions a file may hold      *)
(* (specification SpecDecode).                                             *)
(***************************************************************************)
\* the most members an archive has
MaxMembers == 2

\* the headerlet files an archive may hold: for r1 and for r2
MemberFiles ==
    { writeto(Headerlet(MkFile(Absent, "SIPWCS",
                               [EmptyHdr EXCEPT !.DESTIM = d, !.HDRNAME = "h1",
                                                !.STWCSVER = "0.8", !.VAFACTOR = 1,
                                                !.refs = Refs(2)],
                               <<[BareExt(1) EXCEPT !.wcs = 2, !.vafactor = 1]>>, 3)).hlet)
        : d \in {"r1", "r2"} }

\* the members of an archive: named after HDRNAME or not
TarMembers == [name : {"h1_hdr.fits", "x.fits"}, file : MemberFiles]

\* HEADERLET extensions named h1: the archive compressed or not, the
\* COMPRESS card true or false, 0..MaxMembers members
DecHDUs ==
    { [NoHDU EXCEPT !.extver = 1, !.HDRNAME = "h1", !.SIPNAME = "A", !.NPOLFILE = 2,
                    !.D2IMFILE = 2, !.COMPRESS = c,
                    !.NAXIS1 = TarLen([gz |-> gz, members |-> ms]),
                    !.data = [gz |-> gz, members |-> ms]]
        : c \in BOOLEAN, gz \in BOOLEAN,
          ms \in UNION { [1..n -> TarMembers] : n \in 0..MaxMembers } }

InitDecode ==
    /\ hdu \in DecHDUs
    /\ hlet = NoFile
    /\ dest = NoFile
    /\ dest0 = NoFile
    /\ pc = "dec_ready"
    /\ args = NoArgs
    /\ numhlt = 0
    /\ orig_hlt_hdu = <<>>
    /\ idx = 0
    /\ exc = NoExc
    /\ log = <<>>
    /\ ret = FALSE
    /\ decoded = NoFile
    /\ tmpfiles = {}

\* decoded = hdu.headerlet; the warnings go to log
DecodeHDU ==
    /\ pc = "dec_ready"
    /\ LET r == headerlet(hdu) IN
          /\ log' = log \o r.warn
          /\ IF r.exc # NoExc
             THEN Raise(r.exc) /\ UNCHANGED decoded
             ELSE pc' = "decoded" /\ decoded' = r.hlet /\ UNCHANGED exc
    /\ UNCHANGED <<dest, hlet, args, numhlt, orig_hlt_hdu, idx, ret, dest0, hdu, tmpfiles>>

NextDecode ==
    \/ DecodeHDU

SpecDecode == InitDecode /\ [][NextDecode]_vars

(***************************************************************************)
(* isWCSIdentical(dest, hlet) (specification SpecCompare).                 *)
(***************************************************************************)
\* extensions with the primary WCS and at most one optional component
CmpExts ==
    { [BareExt(1) EXCEPT !.wcs = 1],
      [BareExt(1) EXCEPT !.wcs = 1, !.sip = 1],
      [BareExt(1) EXCEPT !.wcs = 1, !.cpdis = [a \in Axes |-> a = 1],
                         !.dp = [a \in Axes |-> IF a = 1 THEN 1 ELSE 0]],
      [BareExt(1) EXCEPT !.wcs = 1, !.cpdis = [a \in Axes |-> a = 2],
                         !.dp = [a \in Axes |-> IF a = 2 THEN 2 ELSE 0]],
      [BareExt(1) EXCEPT !.wcs = 1, !.axiscorr = 1],
      [BareExt(1) EXCEPT !.wcs = 1, !.axiscorr = 2] }

\* science files r1.fits with 0..MaxSci science extensions
CmpFilesA ==
    { MkFile("r1", "SCI", [EmptyHdr EXCEPT !.ROOTNAME = "r1"], sci, 1)
        : sci \in ExtSeqs(CmpExts, 0) }

\* science files of r1 and of r2, and headerlets for r1, whose arrays are
\* those of the files A or others
CmpFilesB ==
    { MkFile("s", "SCI", [EmptyHdr EXCEPT !.ROOTNAME = root], sci, x)
        : root \in {"r1", "r2"}, sci \in ExtSeqs(CmpExts, 0), x \in {1, 3} }
    \cup
    { MkFile("h", "SIPWCS", [EmptyHdr EXCEPT !.DESTIM = "r1", !.HDRNAME = "h1",
                                             !.STWCSVER = "0.8"], sci, x)
        : sci \in ExtSeqs(CmpExts, 0), x \in {1, 3} }

InitCompare ==
    /\ dest \in CmpFilesA
    /\ hlet \in CmpFilesB
    /\ dest0 = dest
    /\ pc = "cmp_ready"
    /\ args = NoArgs
    /\ numhlt = 0
    /\ orig_hlt_hdu = <<>>
    /\ idx = 0
    /\ exc = NoExc
    /\ log = <<>>
    /\ ret = FALSE
    /\ hdu = NoHDU
    /\ decoded = NoFile
    /\ tmpfiles = {}

\* ret = isWCSIdentical(dest, hlet)
Compare ==
    /\ pc = "cmp_ready"
    /\ LET r == isWCSIdentical(dest, hlet) IN
          IF r.exc # NoExc
          THEN Raise(r.exc) /\ UNCHANGED ret
          ELSE pc' = "compared" /\ ret' = r.val /\ UNCHANGED exc
    /\ UNCHANGED <<dest, hlet, args, numhlt, orig_hlt_hdu, idx, log, dest0, hdu, decoded, tmpfiles>>

NextCompare == Compare

SpecCompare == InitCompare /\ [][NextCompare]_vars

(***************************************************************************)
(* createHeaderlet(dest, hdrname, destim, output) (specification           *)
(* SpecBuild).                                                             *)
(***************************************************************************)
\* science extensions of the source of a headerlet
BuildExts ==
    DestExts
    \cup { [BareExt(1) EXCEPT !.wcs = 2, !.alt = {"B", "O"}, !.vafactor = 2] }
    \cup { [BareExt(1) EXCEPT !.wcs = 2, !.sip = 1, !.alt = {"A"}, !.vafactor = 2,
                              !.cpdis = [a \in Axes |-> TRUE], !.dp = [a \in Axes |-> a],
                              !.axiscorr = 1, !.opt = o]
            : o \in { {"CPERROR1", "CPERROR2", "NPOLEXT", "D2IMEXT", "D2IMERR"},
                      {"CPERROR2", "D2IMEXT"} } }
    \cup { [BareExt(1) EXCEPT !.wcs = 1, !.opt = {"NPOLEXT", "D2IMEXT", "D2IMERR"}] }

\* science observations with 0..MaxSci science extensions
BuildSources ==
    { MkFile("r1", "SCI",
             [EmptyHdr EXCEPT !.ROOTNAME = root, !.STWCSVER = ver, !.refs = refs], sci, 1)
        : root \in {Absent, "r1"}, ver \in {Absent, "0.8"}, refs \in RefSets(1),
          sci \in ExtSeqs(BuildExts, 0) }

BuildArgs == [hdrname : {Absent, "", "h1"}, destim : {Absent, "r2"}, output : {Absent, "out"}]

InitBuild ==
    /\ dest \in BuildSources
    /\ hlet = NoFile
    /\ dest0 = dest
    /\ pc = "build_ready"
    /\ args = [hdrname |-> Absent, destim |-> Absent, output |-> Absent]
    /\ numhlt = 0
    /\ orig_hlt_hdu = <<>>
    /\ idx = 0
    /\ exc = NoExc
    /\ log = <<>>
    /\ ret = Absent
    /\ hdu = NoHDU
    /\ decoded = NoFile
    /\ tmpfiles = {}

\* hlet = createHeaderlet(dest, hdrname, destim, output); ret is the name of
\* the file written
CreateHeaderlet ==
    /\ pc = "build_ready"
    /\ \E a \in BuildArgs :
          LET r == createHeaderlet(dest, a.hdrname, a.destim) IN
          /\ args' = a
          /\ IF r.exc # NoExc
             THEN Raise(r.exc) /\ UNCHANGED <<hlet, ret>>
             ELSE /\ pc' = "built"
                  /\ hlet' = r.hlet
                  /\ ret' = IF a.output = Absent THEN Absent ELSE a.output \o "_hdr.fits"
                  /\ UNCHANGED exc
    /\ UNCHANGED <<dest, numhlt, orig_hlt_hdu, idx, log, dest0, hdu, decoded, tmpfiles>>

NextBuild == CreateHeaderlet

SpecBuild == InitBuild /\ [][NextBuild]_vars

(***************************************************************************)
(* Properties of Headerlet.apply (specification Spec).                     *)
(***************************************************************************)
\* the root identity of a science file: ROOTNAME, else the stem of its name
RootIdentity(d) == IF d.phdr.ROOTNAME # Absent THEN d.phdr.ROOTNAME ELSE d.fname

\* extension 0 lacks a non-blank DESTIM, a non-blank HDRNAME or STWCSVER
LacksRequired(h) ==
    \/ h.phdr.DESTIM \in {Absent, "", " "}
    \/ h.phdr.HDRNAME \in {Absent, "", " "}
    \/ h.phdr.STWCSVER = Absent

Ended == pc \in {"done", "raised"}

\* C1: when the headerlet's DESTIM differs from the root identity of the
\* destination, apply leaves the destination as it was and ends with the
\* diagnostic that names the destination and the headerlet.
C1_IdentityGate ==
    (Ended /\ ~LacksRequired(hlet) /\ hlet.phdr.DESTIM # RootIdentity(dest0))
    => /\ dest = dest0
       /\ \E i \in DOMAIN log : log[i].names = <<dest0.fname, hlet.phdr.HDRNAME>>

\* C1's case: DESTIM differs from the ROOTNAME of the destination and apply
\* has ended in the failure to read the unbound name fobj, no diagnostic
\* naming the destination and the headerlet having been logged
C1_Witness ==
    /\ pc = "raised" /\ exc = "UnboundLocalError"
    /\ hlet.phdr.DESTIM = "r2" /\ dest0.phdr.ROOTNAME = "r1"
    /\ \A i \in DOMAIN log : log[i].names = <<>>

\* C2: when extension 0 of the headerlet lacks a non-blank DESTIM, a
\* non-blank HDRNAME or STWCSVER, apply ends with the failure of hverify,
\* with verify_dest not evaluated (it logs its result) and the destination
\* as it was: no WCSCORR table, no keyword deleted, no extension appended.
C2_StructuralCheckFirst ==
    (pc \notin {"ready", "hverify"} /\ LacksRequired(hlet))
    => /\ pc = "raised" /\ exc = "AssertionError"
       /\ log = <<>>
       /\ dest = dest0

\* C2's case: apply has ended on a headerlet with a blank HDRNAME that was to
\* create the WCSCORR table and the rollback headerlet
C2_Witness ==
    /\ pc = "raised" /\ exc = "AssertionError"
    /\ hlet.phdr.HDRNAME = "" /\ hlet.phdr.DESTIM = RootIdentity(dest0)
    /\ args.createsummary /\ args.createheaderlet /\ args.attach

\* the coordinate solution in the header of a science extension: primary
\* WCS, SIP, alternate WCSs but 'O', VAFACTOR, the references to the lookup
\* tables and to the detector to image correction
SolutionOf(e) ==
    [wcs |-> e.wcs, sip |-> e.sip, alt |-> e.alt \ {"O"},
     vafactor |-> IF e.vafactor = 0 THEN 1 ELSE e.vafactor,
     cpdis |-> e.cpdis, dp |-> e.dp, axiscorr |-> e.axiscorr]

\* headerlet h holds the coordinate solution of every science extension of
\* d, and d's auxiliary arrays
HoldsSolutionOf(h, d) ==
    /\ Len(h.sci) = Len(d.sci)
    /\ \A i \in DOMAIN d.sci : SolutionOf(h.sci[i]) = SolutionOf(d.sci[i])
    /\ h.wdvarr = d.wdvarr
    /\ h.d2imarr = d.d2imarr

\* C3: when apply with createheaderlet succeeds, the destination has the
\* rollback HDRLET extension, and the headerlet read from it holds the
\* coordinate solution the destination had before the apply.
C3_RollbackFidelity ==
    (pc = "done" /\ args.createheaderlet)
    => /\ Len(dest.hdrlets) > Len(dest0.hdrlets)
       /\ LET r == headerlet(dest.hdrlets[Len(dest0.hdrlets) + 1]) IN
            r.exc = NoExc /\ HoldsSolutionOf(r.hlet, dest0)

\* C3's case: the destination had a lookup table on axis 2 alone, and the
\* rollback headerlet has the CPDIS2 card without the DP2 cards
C3_Witness ==
    /\ pc = "done" /\ args.createheaderlet
    /\ Len(dest.hdrlets) > Len(dest0.hdrlets)
    /\ dest0.sci[1].cpdis = <<FALSE, TRUE>> /\ dest0.sci[1].dp[2] # 0
    /\ LET r == headerlet(dest.hdrlets[Len(dest0.hdrlets) + 1]) IN
         r.exc = NoExc /\ r.hlet.sci[1].cpdis[2] /\ r.hlet.sci[1].dp[2] = 0

\* C4: after apply has returned, isWCSIdentical(headerlet, destination) is True.
C4_ApplyThenCompare ==
    pc = "done" => isWCSIdentical(hlet, dest) = [exc |-> NoExc, val |-> TRUE]

\* C4's case: the destination has no ROOTNAME and was accepted by its file
\* name; apply has returned and the comparison fails to find a root name
C4_Witness ==
    /\ pc = "done" /\ dest0.phdr.ROOTNAME = Absent
    /\ Len(dest0.sci) = Len(hlet.sci)
    /\ isWCSIdentical(hlet, dest).exc = "KeyError"

(***************************************************************************)
(* Properties of the archive extension (specification SpecArchive).        *)
(***************************************************************************)
\* C5: for a headerlet with DESTIM, HDRNAME and STWCSVER, with or without
\* NPOLFILE and D2IMFILE, and for both values of compress, fromheaderlet
\* succeeds, NAXIS1 is the length of the payload, and the headerlet read
\* back has the keywords of extension 0 and the SIPWCS extensions of the
\* original.
C5_ArchiveRoundTrip ==
    /\ pc # "raised"
    /\ pc \in {"encoded", "decoded"} => hdu.NAXIS1 = TarLen(hdu.data)
    /\ pc = "decoded" => decoded.phdr = hlet.phdr /\ decoded.sci = hlet.sci

\* C5's case: a headerlet with alternate WCS A on SIPWCS,1 and D2IMFILE but
\* no NPOLFILE; fromheaderlet has raised KeyError
C5_Witness ==
    /\ pc = "raised" /\ exc = "KeyError"
    /\ "A" \in hlet.sci[1].alt
    /\ hlet.phdr.refs["NPOLFILE"] = <<>> /\ hlet.phdr.refs["D2IMFILE"] # <<>>

(***************************************************************************)
(* Properties of isWCSIdentical (specification SpecCompare).               *)
(***************************************************************************)
Compared == pc \in {"compared", "raised"}

\* C6: when one of the two files has no science extension, or the numbers of
\* science extensions differ in either direction, isWCSIdentical returns
\* False; it does not raise.
C6_CountMismatch ==
    (Compared /\ (Len(dest.sci) = 0 \/ Len(hlet.sci) = 0 \/ Len(dest.sci) # Len(hlet.sci)))
    => pc = "compared" /\ ret = FALSE

\* C6's case: the first file has two science extensions, the second one,
\* which is the same as the first extension of the first file, and the
\* comparison has raised KeyError
C6_Witness ==
    /\ pc = "raised" /\ exc = "KeyError"
    /\ Len(dest.sci) = 2 /\ Len(hlet.sci) = 1
    /\ hlet.sci[1] = dest.sci[1]

\* extension i of file f has the optional component c
HasComponent(f, i, c) ==
    CASE c = "sip"     -> f.sci[i].sip # 0
      [] c = "cpdis1"  -> f.sci[i].cpdis[1]
      [] c = "cpdis2"  -> f.sci[i].cpdis[2]
      [] c = "det2im1" -> f.sci[i].axiscorr = 1
      [] c = "det2im2" -> f.sci[i].axiscorr = 2

\* C7: when, for some extension i and optional component, exactly one of the
\* two files has the component on extension i, isWCSIdentical returns False
\* whatever the other values are, and does not fail reading the data of the
\* absent component.
C7_PresenceAsymmetry ==
    (Compared /\ \E i \in DOMAIN dest.sci \cap DOMAIN hlet.sci : \E c \in Components :
                    HasComponent(dest, i, c) # HasComponent(hlet, i, c))
    => pc = "compared" /\ ret = FALSE

\* C7's case: SIP on extension 1 of the first file only, the first file has
\* more science extensions than the second, and the comparison has raised
C7_Witness ==
    /\ pc = "raised" /\ exc = "KeyError"
    /\ Len(dest.sci) = 2 /\ Len(hlet.sci) = 1
    /\ dest.sci[1].sip # 0 /\ hlet.sci[1].sip = 0

(***************************************************************************)
(* Properties of createHeaderlet (specification SpecBuild).                *)
(***************************************************************************)
\* C8: no SIPWCS extension of the headerlet that createHeaderlet returns has
\* the alternate WCS with key 'O', and each has every other alternate key of
\* the first science extension of the source.
C8_AltKeyExclusion ==
    pc = "built" =>
        \A i \in DOMAIN hlet.sci :
            /\ "O" \notin hlet.sci[i].alt
            /\ wcskeys(dest.sci[1]) \ {"O"} \subseteq hlet.sci[i].alt

\* C8's case: a headerlet built from a source with two science extensions
\* whose first has the alternate keys 'B' and 'O'
C8_Witness ==
    /\ pc = "built"
    /\ Len(dest.sci) = 2 /\ Len(hlet.sci) = 2
    /\ dest.sci[1].alt = {"B", "O"} /\ "O" \in dest.sci[2].alt
    /\ hlet.sci[2].alt = {"B"}

\* the destination identity is given or is in the source
HasIdentity == args.destim # Absent \/ dest.phdr.ROOTNAME # Absent

\* C9: called with an identity and with the name None or empty,
\* createHeaderlet raises the missing name error, returns no headerlet and
\* writes no file; every headerlet it returns passes hverify.
C9_MissingName ==
    /\ (pc \in {"built", "raised"} /\ HasIdentity /\ args.hdrname \in {Absent, ""})
       => pc = "raised" /\ exc = "ValueError" /\ hlet = NoFile /\ ret = Absent
    /\ pc = "built" => hverify(hlet)

\* C9's case: createHeaderlet has returned a headerlet for the name '', and
\* has written it
C9_Witness ==
    /\ pc = "built" /\ args.hdrname = "" /\ args.output # Absent
    /\ hlet.phdr.HDRNAME = "" /\ ret # Absent /\ ~hverify(hlet)

\* C10: for a source with N >= 1 science extensions and ROOTNAME, the
\* headerlet that createHeaderlet returns has N SIPWCS extensions numbered
\* 1..N in the order of the source and DESTIM equal to ROOTNAME, and
\* isWCSIdentical(source, headerlet) is True.
C10_BuildRoundTrip ==
    (pc = "built" /\ Len(dest.sci) >= 1 /\ dest.phdr.ROOTNAME # Absent /\ args.destim = Absent)
    => /\ hlet.extname = "SIPWCS" /\ Len(hlet.sci) = Len(dest.sci)
       /\ \A i \in DOMAIN hlet.sci : hlet.sci[i].extver = i /\ hlet.sci[i].wcs = dest.sci[i].wcs
       /\ hlet.phdr.DESTIM = dest.phdr.ROOTNAME
       /\ isWCSIdentical(dest, hlet) = [exc |-> NoExc, val |-> TRUE]

\* C10's case: the source has lookup tables on both axes and no NPOLFILE
\* keyword; the headerlet has the WCSDVARR extensions without the CPDIS cards
C10_Witness ==
    /\ pc = "built" /\ args.hdrname = "h1" /\ args.destim = Absent
    /\ Len(dest.sci) = 1 /\ dest.phdr.ROOTNAME = "r1"
    /\ dest.phdr.refs["NPOLFILE"] = <<>>
    /\ dest.sci[1].cpdis[1] /\ dest.sci[1].cpdis[2]
    /\ ~hlet.sci[1].cpdis[1] /\ hlet.wdvarr = dest.wdvarr
    /\ isWCSIdentical(dest, hlet) = [exc |-> NoExc, val |-> FALSE]

(***************************************************************************)
(* Properties of successive applies (specification SpecSeq) and of the     *)
(* steps of one apply.                                                     *)
(***************************************************************************)
\* the name of the rollback headerlet of the running apply
RollbackName == IF Truthy(args.hdrname) THEN args.hdrname ELSE dest0.phdr.ROOTNAME \o "_orig"

\* C11: with p the number of HDRLET extensions of the destination before
\* the apply, the rollback headerlet, if made, is appended with EXTVER p + 1,
\* and the applied headerlet, if attached, with EXTVER p + 1 when no
\* rollback was made and p + 2 when one was; after any number of applies
\* that returned, the HDRLET extensions have the distinct versions 1..K.
C11_VersionNumbering ==
    /\ \A i \in DOMAIN dest.hdrlets : dest.hdrlets[i].extver = i
    /\ pc = "done" =>
         LET p == Len(dest0.hdrlets)
             r == IF args.createheaderlet THEN 1 ELSE 0
             a == IF args.attach THEN 1 ELSE 0
         IN  /\ Len(dest.hdrlets) = p + r + a
             /\ SubSeq(dest.hdrlets, 1, p) = dest0.hdrlets
             /\ args.createheaderlet =>
                  /\ dest.hdrlets[p + 1].extver = p + 1
                  /\ dest.hdrlets[p + 1].HDRNAME = RollbackName
             /\ args.attach =>
                  /\ dest.hdrlets[p + r + 1].extver = p + r + 1
                  /\ dest.hdrlets[p + r + 1].HDRNAME = hlet.phdr.HDRNAME

\* C11's case: the second apply to a file that had one HDRLET extension from
\* the first has appended the rollback and the applied headerlet
C11_Witness ==
    /\ pc = "done" /\ Len(log) = 2
    /\ Len(dest0.hdrlets) = 1
    /\ args.createheaderlet /\ args.attach
    /\ Len(dest.hdrlets) = 3
    /\ dest.hdrlets[2].extver = 2 /\ dest.hdrlets[3].extver = 3

\* the copy loop of the running apply has gone through all SIPWCS extensions
CopyDone == idx = countExtn(hlet, "SIPWCS") + 1

\* the rows that update_wcscorr has added to the WCSCORR table
LedgerRows(d) == SelectSeq(d.wcscorr, LAMBDA row : row # "init_wcscorr")

\* what the running apply has appended to the HDRLET extensions of the file
Appended == SubSeq(dest.hdrlets, Len(dest0.hdrlets) + 1, Len(dest.hdrlets))

\* C12: in every run of apply the rollback headerlet is built from the file
\* before anything is stripped and appended only after the keywords are
\* copied; the WCSDVARR/D2IMARR extensions of the headerlet are appended
\* only after the copy loop has ended; update_wcscorr comes after them and
\* before the rollback is appended; the applied headerlet is attached last.
\* No HDRLET or array extension is appended while the strip or the copy loop
\* has still to run.
C12_PhaseOrder ==
    /\ pc \in {"ready", "hverify", "verify_dest", "init_wcscorr", "rollback", "delDestWCS"}
       => /\ dest.sci = dest0.sci /\ dest.phdr = dest0.phdr
          /\ dest.wdvarr = dest0.wdvarr /\ dest.d2imarr = dest0.d2imarr
          /\ Appended = <<>> /\ LedgerRows(dest) = LedgerRows(dest0)
    /\ orig_hlt_hdu # <<>>
       => /\ args.createheaderlet
          /\ orig_hlt_hdu[1].data = MakeOrigHlt(dest0, args.hdrname).hdu.data
    /\ pc \in {"updateRefFiles", "copy", "append_arrays"}
       => /\ dest.wdvarr = <<>> /\ dest.d2imarr = <<>>
          /\ Appended = <<>> /\ LedgerRows(dest) = LedgerRows(dest0)
    /\ pc \in {"update_wcscorr", "append_orig", "attach", "done"}
       => /\ CopyDone
          /\ dest.wdvarr = hlet.wdvarr /\ dest.d2imarr = hlet.d2imarr
    /\ pc = "update_wcscorr" => Appended = <<>> /\ LedgerRows(dest) = LedgerRows(dest0)
    /\ pc \in {"append_orig", "attach", "done"} /\ args.createsummary
       => LedgerRows(dest) = Append(LedgerRows(dest0), hlet.self_hdrname)
    /\ pc = "append_orig" => Appended = <<>>
    /\ pc = "attach" => Appended = orig_hlt_hdu
    /\ pc = "done" /\ args.attach
       => /\ Len(Appended) = Len(orig_hlt_hdu) + 1
          /\ SubSeq(Appended, 1, Len(orig_hlt_hdu)) = orig_hlt_hdu
          /\ Appended[Len(Appended)].HDRNAME = hlet.phdr.HDRNAME
    /\ Appended # <<>>
       => /\ CopyDone
          /\ dest.wdvarr = hlet.wdvarr /\ dest.d2imarr = hlet.d2imarr
          /\ args.createsummary => LedgerRows(dest) = Append(LedgerRows(dest0), hlet.self_hdrname)

\* C12's case: an apply that made the WCSCORR table and the rollback, copied
\* two SIPWCS extensions, appended arrays, and attached the headerlet
C12_Witness ==
    /\ pc = "done"
    /\ args.createsummary /\ args.createheaderlet /\ args.attach
    /\ Len(hlet.sci) = 2 /\ hlet.wdvarr # <<>>
    /\ dest0.wdvarr # <<>>
    /\ Len(Appended) = 2

\* C13: when apply has returned, every science extension of the destination
\* whose WCS keywords were stripped is one of 1..N, N the number of SIPWCS
\* extensions, and has the primary WCS, SIP and VAFACTOR of the SIPWCS
\* extension of its index; no extension is left stripped with nothing
\* copied into it.
C13_NoStrippedUnreplaced ==
    pc = "done" =>
        \A i \in DOMAIN dest.sci :
            /\ dest.sci[i].wcs # 0
            /\ dest.sci[i] # dest0.sci[i]
               => /\ i <= Len(hlet.sci)
                  /\ dest.sci[i].wcs = hlet.sci[i].wcs
                  /\ dest.sci[i].sip = hlet.sci[i].sip
                  /\ dest.sci[i].vafactor = hlet.sci[i].vafactor

\* C13's case: a headerlet with one SIPWCS extension was applied to a file
\* with two science extensions; apply has returned and SCI,2 has no WCS
C13_Witness ==
    /\ pc = "done"
    /\ Len(hlet.sci) = 1 /\ Len(dest.sci) = 2
    /\ dest0.sci[2].wcs # 0 /\ dest.sci[2].wcs = 0
    /\ dest.sci[1].wcs = hlet.sci[1].wcs


\* C14: the temporary file fromheaderlet writes the headerlet to exists only
\* while the try block runs: it is gone when fromheaderlet has returned, when
\* it has raised (whichever step failed) and while the cards are made
C14_TempRemoved ==
    /\ pc \notin {"enc_write", "enc_tar"} => tmpfiles = {}
    /\ pc \in {"enc_write", "enc_tar"} => tmpfiles = {TmpName}

\* a step inside the try block failed after the file was made, and it is gone
C14_Witness ==
    /\ pc = "raised"
    /\ exc \in {"IOError", "TarError"}
    /\ hdu.COMPRESS
    /\ tmpfiles = {}

\* the archive of hdu can be read in the mode the COMPRESS card asks for
Readable == ~(hdu.COMPRESS /\ ~hdu.data.gz)

\* the members of the archive of hdu that are named <HDRNAME>_hdr.fits
Named == { i \in DOMAIN hdu.data.members :
             hdu.data.members[i].name = hdu.HDRNAME \o "_hdr.fits" }

\* C15: reading the headerlet of a HEADERLET extension: the archive is opened
\* as gzip-compressed exactly when COMPRESS is true (so a plain archive under
\* COMPRESS = T is a read error, and nothing else is); an archive without
\* members raises ValueError; otherwise the headerlet is a member named
\* <HDRNAME>_hdr.fits if there is one, else the first member, and more than
\* one member gives a warning and no error
C15_MemberSelection ==
    pc \in {"decoded", "raised"} =>
        LET ms == hdu.data.members IN
        /\ (pc = "raised" /\ exc = "ReadError") <=> ~Readable
        /\ (pc = "raised" /\ exc = "ValueError") <=> (Readable /\ ms = <<>>)
        /\ Readable /\ ms # <<>> =>
              /\ pc = "decoded"
              /\ IF Named # {}
                 THEN \E i \in Named : decoded = Headerlet(ms[i].file).hlet
                 ELSE decoded = Headerlet(ms[1].file).hlet
              /\ Len(ms) > 1 => \E k \in DOMAIN log : log[k] = "More than one file"

\* two members, the second is the one named after HDRNAME and holds another
\* headerlet than the first: the second one is read, with a warning
C15_Witness ==
    /\ pc = "decoded"
    /\ hdu.COMPRESS
    /\ Len(hdu.data.members) = 2
    /\ Named = {2}
    /\ hdu.data.members[1].file # hdu.data.members[2].file
    /\ decoded.phdr.DESTIM = hdu.data.members[2].file.phdr.DESTIM
    /\ log # <<>>

(***************************************************************************)
(* Properties of createHeaderlet's optional cards (specification           *)
(* SpecBuild).                                                             *)
(***************************************************************************)
\* the source has D2IMFILE and a science extension without AXISCORR
LacksAxiscorr ==
    /\ dest.phdr.refs["D2IMFILE"] # <<>>
    /\ \E i \in DOMAIN dest.sci : dest.sci[i].axiscorr = 0

\* the source without the optional cards of its science extensions
NoOptCards(f) == [f EXCEPT !.sci = [i \in DOMAIN f.sci |-> [f.sci[i] EXCEPT !.opt = {}]]]

\* C16: a source with D2IMFILE and a science extension without AXISCORR makes
\* createHeaderlet raise, with no headerlet returned and no file written;
\* whether createHeaderlet raises, and what, is the same as for the source
\* without its CPERROR*, NPOLEXT, D2IMEXT and D2IMERR cards; a headerlet that
\* is returned has each of these cards only where the source has it, has
\* D2IMERR where the source with D2IMFILE has it and DPERROR where it has not
C16_InconsistentReference ==
    pc \in {"built", "raised"} =>
        /\ LacksAxiscorr => pc = "raised" /\ hlet = NoFile /\ ret = Absent
        /\ createHeaderlet(NoOptCards(dest), args.hdrname, args.destim).exc
              = (IF pc = "raised" THEN exc ELSE NoExc)
        /\ pc = "built" =>
              \A i \in DOMAIN hlet.sci :
                 /\ hlet.sci[i].opt \ {"DPERROR"} \subseteq dest.sci[i].opt
                 /\ dest.phdr.refs["D2IMFILE"] # <<>> =>
                       /\ "D2IMERR" \in hlet.sci[i].opt <=> "D2IMERR" \in dest.sci[i].opt
                       /\ "DPERROR" \in hlet.sci[i].opt <=> "D2IMERR" \notin dest.sci[i].opt
                 /\ dest.phdr.refs["D2IMFILE"] = <<>> => "DPERROR" \notin hlet.sci[i].opt

\* C16's cases: the second science extension has D2IMEXT and D2IMERR and no
\* AXISCORR, and createHeaderlet, called with a name, has raised KeyError
C16_Witness ==
    /\ pc = "raised" /\ exc = "KeyError"
    /\ args.hdrname = "h1"
    /\ dest.phdr.ROOTNAME = "r1"
    /\ dest.phdr.refs["D2IMFILE"] # <<>>
    /\ Len(dest.sci) = 2
    /\ dest.sci[1].axiscorr # 0
    /\ dest.sci[2].axiscorr = 0 /\ "D2IMERR" \in dest.sci[2].opt

(***************************************************************************)
(* What successive applies leave in the destination (specification         *)
(* SpecSeq).                                                               *)
(***************************************************************************)
\* C17: when an apply has returned, the first or a later one, the WCSDVARR
\* and D2IMARR extensions of the destination are those of the headerlet just
\* applied and no others, and the primary header of the destination has each
\* of IDCTAB, NPOLFILE and D2IMFILE with the value of the headerlet if the
\* headerlet has it and not at all if it has not, never twice
C17_NoStaleArrays ==
    pc = "done" =>
        /\ dest.wdvarr = hlet.wdvarr
        /\ dest.d2imarr = hlet.d2imarr
        /\ \A k \in RefKw :
              /\ Len(dest.phdr.refs[k]) <= 1
              /\ dest.phdr.refs[k] = hlet.phdr.refs[k]

\* C17's case: the second apply has returned; the headerlet applied first
\* left lookup tables and reference files in the destination, the one
\* applied second has neither
C17_Witness ==
    /\ pc = "done"
    /\ Len(log) = 2
    /\ dest0.wdvarr # <<>> /\ dest0.d2imarr # <<>>
    /\ dest0.phdr.refs = Refs(2)
    /\ hlet.wdvarr = <<>> /\ hlet.phdr.refs = NoRefs
    /\ dest.wdvarr = <<>> /\ dest.phdr.refs = NoRefs
====
